---- MODULE Spec2Model ----
(***************************************************************************)
(* Model of paradex_py's websocket client (src/paradex_py/api/ws_client.py) *)
(* and of the channel enumeration it resolves (src/paradex_py/api/models.py).*)
(*                                                                         *)
(* Every ParadexWebsocketClient instance is one index k of Clients.  Each   *)
(* handler of the class (subscribe, unsubscribe, on_open, read_messages,    *)
(* one tick of send_ping with the reconnect it may call) is one action, run *)
(* to completion.  The websocket transport is the environment: it opens,    *)
(* fails and delivers inbound frames.                                       *)
(*                                                                         *)
(* The request "id" of an outbound frame is int(time.time() * 1_000_000);   *)
(* it never influences control flow and is left out of the frames.          *)
(***************************************************************************)
EXTENDS Integers, Sequences, FiniteSets, TLC

(***************************************************************************)
(* Bounds of the model.                                                    *)
(***************************************************************************)
\* Number of ParadexWebsocketClient instances that may ever be constructed.
MaxClients == 2
\* Number of subscribe calls the callers make.
MaxSubscribeCalls == 2

Clients == 1..MaxClients

(***************************************************************************)
(* Channel Namespace: ParadexWebsocketChannel and str.format.              *)
(***************************************************************************)
Lit(s) == [kind |-> "lit", text |-> s]
Field(n) == [kind |-> "field", text |-> n]

\* The members of the enum, by name.
EnumMembers ==
    { "ACCOUNT", "BALANCE_EVENTS", "BBO", "FILLS", "FUNDING_DATA",
      "FUNDING_PAYMENTS", "MARKETS_SUMMARY", "ORDERS", "ORDER_BOOK",
      "ORDER_BOOK_DELTAS", "POINTS_DATA", "POSITIONS", "TRADES",
      "TRADEBUSTS", "TRANSACTIONS", "TRANSFERS" }

\* subscribe and unsubscribe read nothing of `channel` but channel.value, so
\* any object with a `value` attribute is accepted; PONG_OBJECT is such an
\* object, outside the enum, whose value is the reserved word "pong".
ChannelObjects == EnumMembers \cup {"PONG_OBJECT"}

\* channel.value, a format string, cut at its replacement fields.
ChannelValue(c) ==
    CASE c = "ACCOUNT"           -> << Lit("account") >>
      [] c = "BALANCE_EVENTS"    -> << Lit("balance_events") >>
      [] c = "BBO"               -> << Lit("bbo."), Field("market") >>
      [] c = "FILLS"             -> << Lit("fills."), Field("market") >>
      [] c = "FUNDING_DATA"      -> << Lit("funding_data."), Field("market") >>
      [] c = "FUNDING_PAYMENTS"  -> << Lit("funding_payments."), Field("market") >>
      [] c = "MARKETS_SUMMARY"   -> << Lit("markets_summary") >>
      [] c = "ORDERS"            -> << Lit("orders."), Field("market") >>
      [] c = "ORDER_BOOK"        -> << Lit("order_book."), Field("market"),
                                       Lit(".snapshot@15@100ms") >>
      [] c = "ORDER_BOOK_DELTAS" -> << Lit("order_book."), Field("market"),
                                       Lit(".deltas") >>
      [] c = "POINTS_DATA"       -> << Lit("points_data."), Field("market"),
                                       Lit("."), Field("program") >>
      [] c = "POSITIONS"         -> << Lit("positions") >>
      [] c = "TRADES"            -> << Lit("trades."), Field("market") >>
      [] c = "TRADEBUSTS"        -> << Lit("tradebusts") >>
      [] c = "TRANSACTIONS"      -> << Lit("transaction") >>
      [] c = "TRANSFERS"         -> << Lit("transfers") >>
      [] c = "PONG_OBJECT"       -> << Lit("pong") >>

\* A params dict: every possible key maps to its value, or to Missing when the
\* dict does not hold the key.  `params is None` becomes the empty dict.
Missing == "<missing>"
ParamKeys == {"market", "program"}
Markets == {"ETH-USD-PERP", "BTC-USD-PERP"}
Programs == {"Maker"}
ParamDicts ==
    { [market |-> m, program |-> p] :
        m \in Markets \cup {Missing}, p \in Programs \cup {Missing} }
EmptyDict == [market |-> Missing, program |-> Missing]

\* The outcome of str.format when a replacement field is not among the
\* keyword arguments.
KeyError == "<KeyError>"

\* The replacement fields of a format string.
Fields(value) ==
    { value[i].text : i \in { j \in 1..Len(value) : value[j].kind = "field" } }

RECURSIVE FormatFrom(_, _, _)
FormatFrom(value, params, i) ==
    IF i > Len(value) THEN ""
    ELSE LET rest == FormatFrom(value, params, i + 1)
             piece == IF value[i].kind = "lit" THEN value[i].text
                      ELSE params[value[i].text]
         IN  IF piece = Missing \/ rest = KeyError THEN KeyError
             ELSE piece \o rest

\* A format that substitutes nothing for a field it has no argument for.
RECURSIVE FormatLenientFrom(_, _, _)
FormatLenientFrom(value, params, i) ==
    IF i > Len(value) THEN ""
    ELSE LET piece == IF value[i].kind = "lit" THEN value[i].text
                      ELSE IF params[value[i].text] = Missing THEN ""
                      ELSE params[value[i].text]
         IN  piece \o FormatLenientFrom(value, params, i + 1)

FormatLenient(c, params) == FormatLenientFrom(ChannelValue(c), params, 1)

\* channel.value.format(**params): the resolved channel, or KeyError.  Keys of
\* params that the format string does not name are ignored.
Format(c, params) == FormatFrom(ChannelValue(c), params, 1)

(***************************************************************************)
(* Inputs.                                                                 *)
(***************************************************************************)
\* The (channel, params) arguments of the callers' subscribe and unsubscribe
\* calls.  The last two lack a key the format string names: no params at all,
\* and one key of the two named.
Calls ==
    { << "POSITIONS", EmptyDict >>,
      << "FILLS", [market |-> "ETH-USD-PERP", program |-> Missing] >>,
      << "FILLS", [market |-> "BTC-USD-PERP", program |-> Missing] >>,
      << "FILLS", EmptyDict >>,
      << "POINTS_DATA", [market |-> "ETH-USD-PERP", program |-> Missing] >> }

\* The arguments of callers that also pass PONG_OBJECT.
PongCalls ==
    { << "PONG_OBJECT", EmptyDict >>,
      << "POSITIONS", EmptyDict >>,
      << "FILLS", [market |-> "ETH-USD-PERP", program |-> Missing] >>,
      << "ORDER_BOOK", [market |-> Missing, program |-> "Maker"] >> }

\* The channel strings the complete calls resolve to.
ResolvedChannels ==
    { Format(call[1], call[2]) : call \in Calls \cup PongCalls } \ {KeyError}

(***************************************************************************)
(* State.                                                                  *)
(***************************************************************************)
VARIABLES
    nclients,                 \* instances constructed so far: 1..nclients
    ws_ready,                 \* [k] self.ws_ready
    conn,                     \* [k] state of self.ws, the transport
    queued_subscriptions,     \* [k] self.queued_subscriptions
    active_subscriptions,     \* [k] self.active_subscriptions
    subscription_id_counter,  \* [k] self.subscription_id_counter
    failed_subscriptions,     \* [k] active_subscriptions of the instance whose
                              \*     reconnect() constructed k, as they were then
    last,                     \* the handler that ran in the last step
    sent,                     \* the frames that handler passed to ws.send
    invoked,                  \* the subscriptions whose callback it called
    frames                    \* [t] the call of thread t that is in progress

vars == << nclients, ws_ready, conn, queued_subscriptions,
           active_subscriptions, subscription_id_counter,
           failed_subscriptions, last, sent, invoked, frames >>

registry == << queued_subscriptions, active_subscriptions >>

\* class ActiveSubscription(NamedTuple)
ActiveSubscription(callback, subscription_id) ==
    [callback |-> callback, subscription_id |-> subscription_id]

\* An outbound frame: its method and params.channel ("" when it has none).
Frame(method, channel) == [method |-> method, channel |-> channel]

\* defaultdict(list): a key that was never stored reads as the empty list.  A
\* key holding the empty list is not kept: no reader tells it from a key that
\* was never stored.
Lookup(active, channel_with_params) ==
    IF channel_with_params \in DOMAIN active
    THEN active[channel_with_params] ELSE << >>

Store(active, channel_with_params, subscriptions) ==
    LET keys == IF subscriptions = << >>
                THEN (DOMAIN active) \ {channel_with_params}
                ELSE (DOMAIN active) \cup {channel_with_params}
    IN  [ c \in keys |->
            IF c = channel_with_params THEN subscriptions ELSE active[c] ]

NoSubscriptions == [ c \in {} |-> << >> ]

\* The handler of the last step: op and instance, params.channel of the
\* frame when it is read_messages ("" otherwise) and how it ended (the value
\* returned, or the exception raised).
Handler(op, k, channel, result) ==
    [ op |-> op, client |-> k, channel |-> channel, result |-> result ]

\* The threads that run the code of an instance: two threads of the callers,
\* which call subscribe and unsubscribe, and the instance's own thread, whose
\* run() calls run_forever, which calls on_open and read_messages.
Callers == {"caller1", "caller2"}
Threads == Callers \cup {"run"}

\* The frame of a call in progress: the handler, the statement it will run
\* next ("done" when it has ended), its arguments and its locals.  A call
\* that has ended leaves no frame, and so does a handler that runs to its
\* end within one step.
NoFrame ==
    [ op |-> "", pc |-> "done", call |-> << "", EmptyDict >>,
      channel_with_params |-> "",
      subscription |-> ActiveSubscription(0, 0), subscription_id |-> 0,
      new_active_subscriptions |-> << >>, i |-> 0, result |-> "" ]

\* Paradex.ws_client: the instance Paradex.__init__ constructs and starts.
\* It is constructed without on_reconnect, and nothing assigns ws_client again.
ws_client == 1

\* __init__ of every instance.
Init ==
    /\ nclients = 1
    /\ ws_ready = [k \in Clients |-> FALSE]
    /\ conn = [k \in Clients |-> "connecting"]
    /\ queued_subscriptions = [k \in Clients |-> << >>]
    /\ active_subscriptions = [k \in Clients |-> NoSubscriptions]
    /\ subscription_id_counter = [k \in Clients |-> 0]
    /\ failed_subscriptions = [k \in Clients |-> NoSubscriptions]
    /\ last = Handler("__init__", 1, "", "None")
    /\ sent = << >>
    /\ invoked = << >>
    /\ frames = [t \in Threads |-> NoFrame]

(***************************************************************************)
(* subscribe.                                                              *)
(***************************************************************************)
\* The literal list of subscribe's membership test.
RestrictedChannels ==
    { "account", "balance_events", "markets_summary", "positions",
      "tradebusts", "transaction", "transfers" }

\* The check with its length test off by one: it lets a second subscription
\* in and stops the third.
SubscribesThrice(active, channel_with_params) ==
    /\ channel_with_params \in RestrictedChannels
    /\ Len(Lookup(active, channel_with_params)) > 1

\* The condition under which subscribe raises NotImplementedError.
SubscribesTwice(active, channel_with_params) ==
    /\ channel_with_params \in RestrictedChannels
    /\ Len(Lookup(active, channel_with_params)) # 0

\* ws.send(...): WebSocketApp.send raises WebSocketConnectionClosedException
\* unless the socket is there and takes the frame.
SendSucceeds(k) == conn[k] = "open"

\* The else branch of subscribe (ws_ready holds): the check, the append and
\* the send, in the order of the code; `sends` tells whether ws.send succeeds.
SubscribeReady(active, channel_with_params, subscription, sends) ==
    IF SubscribesTwice(active, channel_with_params)
    THEN [ active |-> active, sent |-> << >>, result |-> "NotImplementedError" ]
    ELSE LET appended ==
                 Store(active, channel_with_params,
                       Append(Lookup(active, channel_with_params), subscription))
         IN  IF sends
             THEN [ active |-> appended,
                    sent |-> << Frame("subscribe", channel_with_params) >>,
                    result |-> "returned" ]
             ELSE [ active |-> appended, sent |-> << >>,
                    result |-> "WebSocketConnectionClosedException" ]

\* subscribe(channel, callback, params=params) on instance k, called without
\* a subscription_id as Paradex.ws_subscribe calls it.
Subscribe(k, channel, params, callback) ==
    LET subscription_id == subscription_id_counter[k] + 1
        channel_with_params == Format(channel, params)
        subscription == ActiveSubscription(callback, subscription_id)
        ready == SubscribeReady(active_subscriptions[k], channel_with_params,
                                subscription, SendSucceeds(k))
    IN  /\ k \in 1..nclients
        /\ subscription_id_counter[k] < MaxSubscribeCalls
        /\ subscription_id_counter' =
               [subscription_id_counter EXCEPT ![k] = subscription_id]
        /\ IF channel_with_params = KeyError
           THEN /\ last' = Handler("subscribe", k, "", "KeyError")
                /\ sent' = << >>
                /\ UNCHANGED registry
           ELSE IF ~ws_ready[k]
           THEN /\ queued_subscriptions' =
                       [queued_subscriptions EXCEPT ![k] =
                           Append(@, [ channel |-> channel, params |-> params,
                                       active_subscription |-> subscription ])]
                /\ last' = Handler("subscribe", k, "", "returned")
                /\ sent' = << >>
                /\ UNCHANGED active_subscriptions
           ELSE /\ active_subscriptions' =
                       [active_subscriptions EXCEPT ![k] = ready.active]
                /\ last' = Handler("subscribe", k, "", ready.result)
                /\ sent' = ready.sent
                /\ UNCHANGED queued_subscriptions
        /\ invoked' = << >>
        /\ UNCHANGED << nclients, ws_ready, conn,
                        failed_subscriptions, frames >>

(***************************************************************************)
(* on_open.                                                                *)
(***************************************************************************)
\* The for loop of on_open from entry i on: subscribe(...) with the queued
\* subscription_id for each entry, until one raises.
RECURSIVE DrainFrom(_, _, _)
DrainFrom(active, queue, i) ==
    IF i > Len(queue)
    THEN [ active |-> active, sent |-> << >>, result |-> "returned" ]
    ELSE LET one == SubscribeReady(
                        active, Format(queue[i].channel, queue[i].params),
                        queue[i].active_subscription, TRUE)
             rest == DrainFrom(one.active, queue, i + 1)
         IN  IF one.result # "returned" THEN one
             ELSE [ active |-> rest.active, sent |-> one.sent \o rest.sent,
                    result |-> rest.result ]

\* self.account: the client is constructed with an account, as
\* examples/connect_ws_api.py constructs it through Paradex.
account == TRUE

\* if self.account: self.send_auth_id()
AuthFrames == IF account THEN << Frame("auth", "") >> ELSE << >>

\* The transport of instance k opens and calls on_open, once.
OnOpen(k) ==
    LET drained == DrainFrom(active_subscriptions[k], queued_subscriptions[k], 1)
    IN  /\ k \in 1..nclients
        /\ conn[k] = "connecting"
        /\ conn' = [conn EXCEPT ![k] = "open"]
        /\ ws_ready' = [ws_ready EXCEPT ![k] = TRUE]
        /\ active_subscriptions' =
               [active_subscriptions EXCEPT ![k] = drained.active]
        /\ sent' = AuthFrames \o drained.sent
        /\ invoked' = << >>
        /\ last' = Handler("on_open", k, "", drained.result)
        /\ UNCHANGED << nclients, queued_subscriptions,
                        subscription_id_counter, failed_subscriptions,
                        frames >>

(***************************************************************************)
(* unsubscribe.                                                            *)
(***************************************************************************)
\* [x for x in active_subscriptions if x.subscription_id != subscription_id]
Remaining(subscriptions, subscription_id) ==
    SelectSeq(subscriptions, LAMBDA x : x.subscription_id # subscription_id)

\* The condition under which unsubscribe sends the unsubscribe request.
SendsUnsubscribe(new_active_subscriptions) ==
    Len(new_active_subscriptions) = 0

\* A caller's unsubscribe(channel, subscription_id, params=params) on k.
Unsubscribe(k, channel, params, subscription_id) ==
    LET channel_with_params == Format(channel, params)
        subscriptions == Lookup(active_subscriptions[k], channel_with_params)
        new_active_subscriptions == Remaining(subscriptions, subscription_id)
        removed == Len(subscriptions) # Len(new_active_subscriptions)
        ends(result) == last' = Handler("unsubscribe", k, "", result)
    IN  /\ k \in 1..nclients
        /\ IF ~ws_ready[k]
           THEN /\ ends("NotImplementedError")
                /\ sent' = << >>
                /\ UNCHANGED active_subscriptions
           ELSE IF channel_with_params = KeyError
           THEN /\ ends("KeyError")
                /\ sent' = << >>
                /\ UNCHANGED active_subscriptions
           ELSE IF SendsUnsubscribe(new_active_subscriptions) /\ ~SendSucceeds(k)
           THEN /\ ends("WebSocketConnectionClosedException")
                /\ sent' = << >>
                /\ UNCHANGED active_subscriptions
           ELSE /\ ends(IF removed THEN "True" ELSE "False")
                /\ sent' = IF SendsUnsubscribe(new_active_subscriptions)
                           THEN << Frame("unsubscribe", channel_with_params) >>
                           ELSE << >>
                /\ active_subscriptions' =
                       [active_subscriptions EXCEPT ![k] =
                           Store(@, channel_with_params, new_active_subscriptions)]
        /\ invoked' = << >>
        /\ UNCHANGED << nclients, ws_ready, conn,
                        failed_subscriptions, queued_subscriptions,
                        subscription_id_counter, frames >>

\* on_open has run on instance k: it is what takes the transport out of
\* "connecting".
EverReady(k) == conn[k] # "connecting"

(***************************************************************************)
(* read_messages.                                                          *)
(***************************************************************************)
\* data.get("channel") of a frame that carries params but no channel.
None == "<None>"

\* Inbound frames, by what read_messages reads of them: the greeting text,
\* a JSON object without "params", and a JSON object whose params.channel is
\* None, "pong" or a channel string.
Greeting == [ text |-> TRUE, params |-> FALSE, channel |-> None ]
NoParams == [ text |-> FALSE, params |-> FALSE, channel |-> None ]
Push(channel) == [ text |-> FALSE, params |-> TRUE, channel |-> channel ]
Messages ==
    { Greeting, NoParams } \cup
    { Push(channel) : channel \in ResolvedChannels \cup {None, "pong"} }

\* All the subscriptions of a registry, channel after channel.
RECURSIVE Everyone(_, _)
Everyone(active, channels) ==
    IF channels = {} THEN << >>
    ELSE LET c == CHOOSE x \in channels : TRUE
         IN  active[c] \o Everyone(active, channels \ {c})

\* A lookup that does not key on the resolved channel: a frame that gets as
\* far as the lookup is handed to the subscribers of every channel.
AddressedUnkeyed(active, message) ==
    IF message.text \/ ~message.params THEN << >>
    ELSE IF message.channel = "pong" THEN << >>
    ELSE IF message.channel = None THEN << >>
    ELSE Everyone(active, DOMAIN active)

\* A router without the early return on "pong".
AddressedPong(active, message) ==
    IF message.text \/ ~message.params THEN << >>
    ELSE IF message.channel = None THEN << >>
    ELSE Lookup(active, message.channel)

\* The subscriptions read_messages looks up for a frame: none when it returns
\* before the lookup.
Addressed(active, message) ==
    IF message.text \/ ~message.params THEN << >>
    ELSE IF message.channel = "pong" THEN << >>
    ELSE IF message.channel = None THEN << >>
    ELSE Lookup(active, message.channel)

\* The for loop over the subscriptions: callback(data) on each in list order.
\* `raising` is the place in the list of the first callback that raises, 0
\* when none does; the exception ends the loop.
Called(subscriptions, raising) ==
    IF raising = 0 THEN subscriptions ELSE SubSeq(subscriptions, 1, raising)

\* The transport of instance k delivers a frame to read_messages.
ReadMessages(k, message, raising) ==
    LET subscriptions == Addressed(active_subscriptions[k], message)
    IN  /\ k \in 1..nclients
        /\ conn[k] = "open"
        /\ raising <= Len(subscriptions)
        /\ invoked' = Called(subscriptions, raising)
        /\ sent' = << >>
        /\ last' = Handler("read_messages", k, message.channel,
                           IF raising # 0 THEN "CallbackError" ELSE "None")
        /\ UNCHANGED << nclients, ws_ready, conn,
                        failed_subscriptions, queued_subscriptions,
                        active_subscriptions, subscription_id_counter,
                        frames >>

(***************************************************************************)
(* send_ping and reconnect.                                                *)
(***************************************************************************)
\* self.ws and self.ws.sock and self.ws.sock.connected
Connected(k) == conn[k] = "open"

\* One pass of the loop of send_ping that sends the ping.
SendPing(k) ==
    /\ k \in 1..nclients
    /\ Connected(k)
    /\ sent' = << Frame("ping", "") >>
    /\ invoked' = << >>
    /\ last' = Handler("send_ping", k, "", "None")
    /\ UNCHANGED << nclients, ws_ready, conn,
                    failed_subscriptions, queued_subscriptions,
                    active_subscriptions, subscription_id_counter, frames >>

\* reconnect(): ws_ready is reset and a new instance is constructed and
\* started from env, logger, account and on_reconnect alone.
Reconnect(k) ==
    /\ nclients < MaxClients
    /\ ws_ready' = [ws_ready EXCEPT ![k] = FALSE]
    /\ nclients' = nclients + 1
    /\ failed_subscriptions' =
           [failed_subscriptions EXCEPT ![nclients + 1] = active_subscriptions[k]]
    /\ sent' = << >>
    /\ invoked' = << >>
    /\ last' = Handler("reconnect", k, "", "None")
    /\ UNCHANGED << queued_subscriptions, active_subscriptions,
                    subscription_id_counter, frames >>

\* One pass of the loop in which ws.send raises
\* WebSocketConnectionClosedException: the socket reports connected and is
\* closed before the send.
SendPingFails(k) ==
    /\ k \in 1..nclients
    /\ Connected(k)
    /\ conn' = [conn EXCEPT ![k] = "closed"]
    /\ Reconnect(k)

\* One pass of the loop that finds the socket not connected.
SendPingNotConnected(k) ==
    /\ k \in 1..nclients
    /\ ~Connected(k)
    /\ UNCHANGED conn
    /\ Reconnect(k)

(***************************************************************************)
(* The transport.                                                          *)
(***************************************************************************)
\* The open connection of instance k is lost and run_forever returns.
TransportFails(k) ==
    /\ k \in 1..nclients
    /\ conn[k] = "open"
    /\ conn' = [conn EXCEPT ![k] = "closed"]
    /\ sent' = << >>
    /\ invoked' = << >>
    /\ last' = Handler("transport", k, "", "closed")
    /\ UNCHANGED << nclients, ws_ready,
                    failed_subscriptions, queued_subscriptions,
                    active_subscriptions, subscription_id_counter, frames >>

\* One step of the program and its environment, with the callers' arguments
\* drawn from `calls`.
Step(calls) ==
    \/ \E call \in calls :
           Subscribe(ws_client, call[1], call[2],
                     subscription_id_counter[ws_client] + 1)
    \/ \E call \in calls, id \in 1..MaxSubscribeCalls :
           Unsubscribe(ws_client, call[1], call[2], id)
    \/ \E k \in Clients : OnOpen(k)
    \/ \E k \in Clients, message \in Messages, raising \in 0..MaxSubscribeCalls :
           ReadMessages(k, message, raising)
    \/ \E k \in Clients : SendPing(k)
    \/ \E k \in Clients : SendPingFails(k)
    \/ \E k \in Clients : SendPingNotConnected(k)
    \/ \E k \in Clients : TransportFails(k)

Next == Step(Calls)

Spec == Init /\ [][Next]_vars

NextPong == Step(PongCalls)

\* The program with callers that also subscribe to PONG_OBJECT.
SpecPong == Init /\ [][NextPong]_vars

\* The instance an on_reconnect listener was last handed: reconnect() calls
\* self.on_reconnect(new_client) with the instance it has just constructed.
new_client == nclients

\* The program of a caller that constructs ParadexWebsocketClient itself,
\* with an on_reconnect listener, and calls subscribe and unsubscribe on the
\* instance the listener was last handed (on the first one before that).
NextListener ==
    \/ \E call \in Calls :
           Subscribe(new_client, call[1], call[2],
                     subscription_id_counter[new_client] + 1)
    \/ \E call \in Calls, id \in 1..MaxSubscribeCalls :
           Unsubscribe(new_client, call[1], call[2], id)
    \/ \E k \in Clients : OnOpen(k)
    \/ \E k \in Clients, message \in Messages, raising \in 0..MaxSubscribeCalls :
           ReadMessages(k, message, raising)
    \/ \E k \in Clients : SendPing(k)
    \/ \E k \in Clients : SendPingFails(k)
    \/ \E k \in Clients : SendPingNotConnected(k)
    \/ \E k \in Clients : TransportFails(k)

SpecListener == Init /\ [][NextListener]_vars

(***************************************************************************)
(* The handlers statement by statement.  The class takes no lock: a thread  *)
(* of the callers runs subscribe or unsubscribe on ws_client while the      *)
(* instance's own thread runs on_open, and the threads interleave between   *)
(* statements.                                                             *)
(***************************************************************************)
\* Thread t can start a call: its last one has ended.
Returned(t) == frames[t].pc = "done"

\* Thread t runs the statement `pc` of handler `op`.
At(t, op, pc) == frames[t].op = op /\ frames[t].pc = pc

\* Thread t goes on to statement `pc`.
Goto(t, pc) == frames' = [frames EXCEPT ![t].pc = pc]

\* The call of thread t ends.
Ends(t) == frames' = [frames EXCEPT ![t] = NoFrame]

\* on_open ends with `result`; the frame keeps the index its loop reached.
OpenEnds(result) ==
    frames' = [frames EXCEPT
                 !["run"] = [NoFrame EXCEPT !.op = "on_open", !.result = result,
                                            !.i = frames["run"].i]]

\* The variables no statement of subscribe, unsubscribe or on_open assigns.
others == << nclients, failed_subscriptions, invoked >>

\* subscribe, lines 134-142: the id is assigned, the channel resolved and
\* ws_ready read.
SubscribeBegin(t, channel, params) ==
    LET k == ws_client
        subscription_id == subscription_id_counter[k] + 1
        channel_with_params == Format(channel, params)
        frame == [ NoFrame EXCEPT
                     !.op = "subscribe", !.call = << channel, params >>,
                     !.channel_with_params = channel_with_params,
                     !.subscription =
                         ActiveSubscription(subscription_id, subscription_id),
                     !.subscription_id = subscription_id ]
    IN  /\ Returned(t)
        /\ subscription_id_counter[k] < MaxSubscribeCalls
        /\ subscription_id_counter' =
               [subscription_id_counter EXCEPT ![k] = subscription_id]
        /\ frames' =
               [frames EXCEPT ![t] =
                   IF channel_with_params = KeyError THEN NoFrame
                   ELSE IF ~ws_ready[k] THEN [frame EXCEPT !.pc = "enqueue"]
                   ELSE [frame EXCEPT !.pc = "check"]]
        /\ last' = Handler("subscribe", k, "",
                           IF channel_with_params = KeyError THEN "KeyError"
                           ELSE "running")
        /\ sent' = << >>
        /\ UNCHANGED << ws_ready, conn, registry, others >>

\* subscribe, line 144: the entry is appended to the queue; line 175.
SubscribeEnqueue(t) ==
    LET k == ws_client
    IN  /\ At(t, "subscribe", "enqueue")
        /\ queued_subscriptions' =
               [queued_subscriptions EXCEPT ![k] =
                   Append(@, [ channel |-> frames[t].call[1],
                               params |-> frames[t].call[2],
                               active_subscription |-> frames[t].subscription ])]
        /\ Ends(t)
        /\ last' = Handler("subscribe", k, "", "returned")
        /\ sent' = << >>
        /\ UNCHANGED << ws_ready, conn, active_subscriptions,
                        subscription_id_counter, others >>

\* subscribe, lines 147-160: the check of the restricted channels.
SubscribeCheck(t) ==
    LET k == ws_client
        raises == SubscribesTwice(active_subscriptions[k],
                                  frames[t].channel_with_params)
    IN  /\ At(t, "subscribe", "check")
        /\ IF raises THEN Ends(t) ELSE Goto(t, "append")
        /\ last' = Handler("subscribe", k, "",
                           IF raises THEN "NotImplementedError" ELSE "running")
        /\ sent' = << >>
        /\ UNCHANGED << ws_ready, conn, registry,
                        subscription_id_counter, others >>

\* subscribe, line 161: the subscription is appended to the channel's list.
SubscribeAppend(t) ==
    LET k == ws_client
        channel_with_params == frames[t].channel_with_params
    IN  /\ At(t, "subscribe", "append")
        /\ active_subscriptions' =
               [active_subscriptions EXCEPT ![k] =
                   Store(@, channel_with_params,
                         Append(Lookup(@, channel_with_params),
                                frames[t].subscription))]
        /\ Goto(t, "send")
        /\ last' = Handler("subscribe", k, "", "running")
        /\ sent' = << >>
        /\ UNCHANGED << ws_ready, conn, queued_subscriptions,
                        subscription_id_counter, others >>

\* subscribe, lines 165-175: the subscribe request is sent.
SubscribeSend(t) ==
    LET k == ws_client
        result == IF SendSucceeds(k) THEN "returned"
                  ELSE "WebSocketConnectionClosedException"
    IN  /\ At(t, "subscribe", "send")
        /\ sent' = IF SendSucceeds(k)
                   THEN << Frame("subscribe", frames[t].channel_with_params) >>
                   ELSE << >>
        /\ Ends(t)
        /\ last' = Handler("subscribe", k, "", result)
        /\ UNCHANGED << ws_ready, conn, registry,
                        subscription_id_counter, others >>

\* unsubscribe, lines 180-187: ws_ready is read, the channel resolved, the
\* channel's list read and filtered.  The callers make one unsubscribe call
\* at a time.
UnsubscribeBegin(t, channel, params, subscription_id) ==
    LET k == ws_client
        channel_with_params == Format(channel, params)
        frame == [ NoFrame EXCEPT
                     !.op = "unsubscribe", !.call = << channel, params >>,
                     !.channel_with_params = channel_with_params,
                     !.subscription_id = subscription_id,
                     !.new_active_subscriptions =
                         Remaining(Lookup(active_subscriptions[k],
                                          channel_with_params),
                                   subscription_id) ]
        result == IF ~ws_ready[k] THEN "NotImplementedError"
                  ELSE IF channel_with_params = KeyError THEN "KeyError"
                  ELSE "running"
    IN  /\ Returned(t)
        /\ \A u \in Callers : frames[u].op # "unsubscribe"
        /\ frames' =
               [frames EXCEPT ![t] =
                   IF result # "running" THEN NoFrame
                   ELSE [frame EXCEPT !.pc = "send"]]
        /\ last' = Handler("unsubscribe", k, "", result)
        /\ sent' = << >>
        /\ UNCHANGED << ws_ready, conn, registry,
                        subscription_id_counter, others >>

\* unsubscribe, lines 188-198: the unsubscribe request is sent when the
\* filtered list is empty.
UnsubscribeSend(t) ==
    LET k == ws_client
        sends == SendsUnsubscribe(frames[t].new_active_subscriptions)
        raises == sends /\ ~SendSucceeds(k)
    IN  /\ At(t, "unsubscribe", "send")
        /\ sent' = IF sends /\ ~raises
                   THEN << Frame("unsubscribe", frames[t].channel_with_params) >>
                   ELSE << >>
        /\ IF raises THEN Ends(t) ELSE Goto(t, "assign")
        /\ last' = Handler("unsubscribe", k, "",
                           IF raises THEN "WebSocketConnectionClosedException"
                           ELSE "running")
        /\ UNCHANGED << ws_ready, conn, registry,
                        subscription_id_counter, others >>

\* unsubscribe, lines 199-200: the filtered list is stored and the lengths
\* compared; the list read at line 185 is the one the channel still holds.
UnsubscribeAssign(t) ==
    LET k == ws_client
        channel_with_params == frames[t].channel_with_params
        result ==
            IF Len(Lookup(active_subscriptions[k], channel_with_params))
                   # Len(frames[t].new_active_subscriptions)
            THEN "True" ELSE "False"
    IN  /\ At(t, "unsubscribe", "assign")
        /\ active_subscriptions' =
               [active_subscriptions EXCEPT ![k] =
                   Store(@, channel_with_params,
                         frames[t].new_active_subscriptions)]
        /\ Ends(t)
        /\ last' = Handler("unsubscribe", k, "", result)
        /\ sent' = << >>
        /\ UNCHANGED << ws_ready, conn, queued_subscriptions,
                        subscription_id_counter, others >>

\* on_open, line 71: the connection has opened and ws_ready is set.
OpenReady ==
    LET k == ws_client
    IN  /\ conn[k] = "connecting"
        /\ Returned("run")
        /\ conn' = [conn EXCEPT ![k] = "open"]
        /\ ws_ready' = [ws_ready EXCEPT ![k] = TRUE]
        /\ frames' = [frames EXCEPT
                        !["run"] = [NoFrame EXCEPT !.op = "on_open",
                                                   !.pc = "auth"]]
        /\ last' = Handler("on_open", k, "", "running")
        /\ sent' = << >>
        /\ UNCHANGED << registry, subscription_id_counter, others >>

\* on_open, lines 72-73: the auth request is sent.
OpenAuth ==
    LET k == ws_client
    IN  /\ At("run", "on_open", "auth")
        /\ sent' = AuthFrames
        /\ frames' = [frames EXCEPT !["run"].pc = "for", !["run"].i = 1]
        /\ last' = Handler("on_open", k, "", "running")
        /\ UNCHANGED << ws_ready, conn, registry,
                        subscription_id_counter, others >>

\* on_open, lines 74-80: one pass of the for loop, which ends when the index
\* is past the end of the list as it is then; the subscribe it calls runs
\* to its end.
OpenFor ==
    LET k == ws_client
        i == frames["run"].i
        queue == queued_subscriptions[k]
        one == SubscribeReady(active_subscriptions[k],
                              Format(queue[i].channel, queue[i].params),
                              queue[i].active_subscription, SendSucceeds(k))
    IN  /\ At("run", "on_open", "for")
        /\ IF i > Len(queue)
           THEN /\ OpenEnds("returned")
                /\ last' = Handler("on_open", k, "", "returned")
                /\ sent' = << >>
                /\ UNCHANGED active_subscriptions
           ELSE /\ active_subscriptions' =
                       [active_subscriptions EXCEPT ![k] = one.active]
                /\ sent' = one.sent
                /\ IF one.result = "returned"
                   THEN /\ frames' = [frames EXCEPT !["run"].i = i + 1]
                        /\ last' = Handler("on_open", k, "", "running")
                   ELSE /\ OpenEnds(one.result)
                        /\ last' = Handler("on_open", k, "", one.result)
        /\ UNCHANGED << ws_ready, conn, queued_subscriptions,
                        subscription_id_counter, others >>

NextThreads ==
    \/ \E t \in Callers, call \in Calls : SubscribeBegin(t, call[1], call[2])
    \/ \E t \in Callers : SubscribeEnqueue(t)
    \/ \E t \in Callers : SubscribeCheck(t)
    \/ \E t \in Callers : SubscribeAppend(t)
    \/ \E t \in Callers : SubscribeSend(t)
    \/ \E t \in Callers, call \in Calls, id \in 1..MaxSubscribeCalls :
           UnsubscribeBegin(t, call[1], call[2], id)
    \/ \E t \in Callers : UnsubscribeSend(t)
    \/ \E t \in Callers : UnsubscribeAssign(t)
    \/ OpenReady
    \/ OpenAuth
    \/ OpenFor

\* subscribe and unsubscribe of two caller threads and on_open of the
\* instance's thread, interleaved statement by statement, while the
\* connection holds.
SpecThreads == Init /\ [][NextThreads]_vars

(***************************************************************************)
(* Properties.                                                             *)
(***************************************************************************)
Range(seq) == { seq[i] : i \in 1..Len(seq) }

\* The subscribe requests among the frames of the last handler, in order.
SubscribeRequests == SelectSeq(sent, LAMBDA frame : frame.method = "subscribe")

\* The step is the callers' subscribe with the arguments `call`.
IsSubscribe(call) ==
    /\ last'.op = "subscribe"
    /\ Subscribe(ws_client, call[1], call[2],
                 subscription_id_counter[ws_client] + 1)

\* The restricted channels, as the specification lists them.
SingletonChannels ==
    { "account", "balance_events", "markets_summary", "positions",
      "tradebusts", "transaction", "transfers" }

\* C1, first part: in every reachable state every instance holds at most one
\* active subscription on each restricted channel.
C1_AtMostOne ==
    \A k \in Clients : \A channel \in SingletonChannels :
        Len(Lookup(active_subscriptions[k], channel)) <= 1

\* The step is a subscribe on the ready client to a restricted channel that
\* has an active subscriber.
IsSecondSubscribe(call) ==
    /\ last'.op = "subscribe"
    /\ ws_ready[ws_client]
    /\ Format(call[1], call[2]) \in SingletonChannels
    /\ Lookup(active_subscriptions[ws_client], Format(call[1], call[2])) # << >>
    /\ IsSubscribe(call)

\* C1, second part: a subscribe on a ready instance to a restricted channel
\* that has an active subscriber raises and leaves exactly one subscriber.
C1_SecondFails ==
    \A call \in Calls \cup PongCalls :
        IsSecondSubscribe(call)
        => /\ last'.result = "NotImplementedError"
           /\ Len(Lookup(active_subscriptions'[ws_client],
                         Format(call[1], call[2]))) = 1

\* C1: at most one active subscription per restricted channel in every
\* reachable state, and a second subscribe to such a channel on a ready
\* client fails, leaving exactly one active subscriber.
C1_RestrictedSingleton == [] C1_AtMostOne /\ [][C1_SecondFails]_vars

\* A second subscribe to positions has just failed on the ready client.
C1_Witness ==
    /\ last.op = "subscribe" /\ last.result = "NotImplementedError"
    /\ ws_ready[ws_client]
    /\ Len(Lookup(active_subscriptions[ws_client], "positions")) = 1

\* C2: when the replacement instance's connection opens, every subscription
\* that was active on the instance that reconnected is active on the
\* replacement with the same subscription_id, and a subscribe request for its
\* channel was sent on the replacement connection.
C2_Reestablished ==
    (last.op = "on_open" /\ last.client # ws_client) =>
        LET n == last.client
        IN  \A channel \in DOMAIN failed_subscriptions[n] :
                /\ Range(failed_subscriptions[n][channel])
                       \subseteq Range(Lookup(active_subscriptions[n], channel))
                /\ Frame("subscribe", channel) \in Range(sent)

\* C3: when on_open has run, every queued subscription is active exactly
\* once under its resolved channel with its queued subscription_id, and the
\* subscribe requests sent are one per queue entry, in queue order.
C3_QueueIssuedInOrder ==
    (last.op = "on_open") =>
        LET k == last.client
            queue == queued_subscriptions[k]
            resolved(i) == Format(queue[i].channel, queue[i].params)
            subscriptions(i) == Lookup(active_subscriptions[k], resolved(i))
        IN  /\ \A i \in 1..Len(queue) :
                   Cardinality({ j \in 1..Len(subscriptions(i)) :
                       subscriptions(i)[j] = queue[i].active_subscription }) = 1
            /\ SubscribeRequests =
                   [ i \in 1..Len(queue) |-> Frame("subscribe", resolved(i)) ]

\* The step is the callers' unsubscribe with the arguments `call` and `id`.
IsUnsubscribe(call, id) ==
    /\ last'.op = "unsubscribe"
    /\ Unsubscribe(ws_client, call[1], call[2], id)

\* The subscription ids active on the resolved channel of `call`.
ActiveIds(call) ==
    { x.subscription_id :
        x \in Range(Lookup(active_subscriptions[ws_client],
                           Format(call[1], call[2]))) }

\* C4: on a ready client, unsubscribe with a subscription_id that is not
\* active on the resolved channel returns false and sends nothing.
C4_UnknownIdSendsNothing ==
    [][ \A call \in Calls, id \in 1..MaxSubscribeCalls :
          ( /\ ws_ready[ws_client]
            /\ Format(call[1], call[2]) # KeyError
            /\ id \notin ActiveIds(call)
            /\ IsUnsubscribe(call, id) )
          => (last'.result = "False" /\ sent' = << >>) ]_vars

\* C5, dispatch: the callbacks read_messages calls for a frame belong to
\* subscriptions of exactly the frame's channel, and to no other channel's.
C5_OnlyThatChannel ==
    (last.op = "read_messages") =>
        LET active == active_subscriptions[last.client]
        IN  \A x \in Range(invoked) :
                /\ x \in Range(Lookup(active, last.channel))
                /\ \A c \in (DOMAIN active) \ {last.channel} :
                       x \notin Range(active[c])

\* C5, subscribe: a subscribe on the ready, connected client to a channel
\* that is not restricted returns, adds the subscription to its resolved
\* channel and leaves the subscribers of every other channel as they were.
C5_IndependentSets ==
    \A call \in Calls :
        LET channel == Format(call[1], call[2])
            before == active_subscriptions[ws_client]
            after == active_subscriptions'[ws_client]
        IN  ( /\ last'.op = "subscribe"
              /\ ws_ready[ws_client] /\ SendSucceeds(ws_client)
              /\ channel \notin SingletonChannels \cup {KeyError}
              /\ IsSubscribe(call) )
            => /\ last'.result = "returned"
               /\ Lookup(after, channel) =
                      Append(Lookup(before, channel),
                             ActiveSubscription(
                                 subscription_id_counter'[ws_client],
                                 subscription_id_counter'[ws_client]))
               /\ \A c \in ((DOMAIN before) \cup (DOMAIN after)) \ {channel} :
                      Lookup(after, c) = Lookup(before, c)

\* C5: subscriptions to one channel family resolved with different params
\* both succeed and have independent subscriber sets, and a frame of one
\* resolved channel reaches only the callbacks subscribed to that channel.
C5_ParameterizedIndependent ==
    [] C5_OnlyThatChannel /\ [][C5_IndependentSets]_vars

\* A fills.ETH-USD-PERP frame was dispatched while fills.BTC-USD-PERP has a
\* subscriber of its own.
C5_Witness ==
    /\ last.op = "read_messages" /\ last.channel = "fills.ETH-USD-PERP"
    /\ invoked # << >>
    /\ Lookup(active_subscriptions[last.client], "fills.BTC-USD-PERP") # << >>

\* C6: a frame whose params.channel is "pong" causes no callback to be
\* called, whatever the registry holds.
C6_PongNeverDispatched ==
    (last.op = "read_messages" /\ last.channel = "pong") => invoked = << >>

\* A pong frame was read while a subscription keyed "pong" is active.
C6_Witness ==
    /\ last.op = "read_messages" /\ last.channel = "pong"
    /\ Lookup(active_subscriptions[last.client], "pong") # << >>

\* C7: when a frame is dispatched to a channel with several active
\* subscribers, every one of them has its callback called even if one raises,
\* and no exception leaves read_messages.
C7_SiblingsStillCalled ==
    ( /\ last.op = "read_messages"
      /\ last.channel \notin {"pong", None}
      /\ Len(Lookup(active_subscriptions[last.client], last.channel)) >= 2 )
    => /\ invoked = Lookup(active_subscriptions[last.client], last.channel)
       /\ last.result # "CallbackError"

\* params lacks a key the format string of the channel names.
Incomplete(call) ==
    \E key \in Fields(ChannelValue(call[1])) : call[2][key] = Missing

\* The callers' arguments that lack such a key.
IncompleteCalls == { call \in Calls : Incomplete(call) }

\* C8, resolution: for every channel object and every params dict lacking a
\* key its format string names, the resolution fails.
C8_ResolutionFails ==
    \A c \in ChannelObjects, p \in ParamDicts :
        Incomplete(<<c, p>>) => Format(c, p) = KeyError

\* C8, calls: a step that is a subscribe or an unsubscribe with such
\* arguments raises, leaves both registry tables as they were and sends
\* nothing, ready or not.
C8_CallFails ==
    /\ (\E call \in IncompleteCalls : IsSubscribe(call))
       => /\ last'.result = "KeyError"
          /\ UNCHANGED registry /\ sent' = << >>
    /\ (\E call \in IncompleteCalls, id \in 1..MaxSubscribeCalls :
            IsUnsubscribe(call, id))
       => /\ last'.result = IF ws_ready[ws_client] THEN "KeyError"
                            ELSE "NotImplementedError"
          /\ UNCHANGED registry /\ sent' = << >>

\* C8: subscribe or unsubscribe with params that lack a placeholder of the
\* channel fails, in the ready and in the not-ready state: nothing is queued
\* or made active and nothing is sent.
C8_MissingPlaceholderFails ==
    [] C8_ResolutionFails /\ [][C8_CallFails]_vars

\* A subscribe lacking a placeholder has just raised on the ready client,
\* which holds an active subscription.
C8_Witness ==
    /\ last.op = "subscribe" /\ last.result = "KeyError"
    /\ ws_ready[ws_client]
    /\ active_subscriptions[ws_client] # NoSubscriptions

\* C9: unsubscribe raises the premature-unsubscribe error when, and only
\* when, the instance has never become ready.
C9_PrematureOnlyBeforeReady ==
    (last.op = "unsubscribe") =>
        ((last.result = "NotImplementedError") <=> ~EverReady(last.client))

\* C10: a subscribe that fails because the restricted channel has an active
\* subscriber leaves active_subscriptions, queued_subscriptions and the id
\* counter as they were and sends nothing.
C10_FailedSubscribeChangesNothing ==
    [][ \A call \in Calls :
          IsSecondSubscribe(call) =>
              /\ UNCHANGED << registry, subscription_id_counter >>
              /\ sent' = << >> ]_vars

\* C12: once a reconnect has constructed a replacement, every subscribe and
\* unsubscribe of the callers runs on the newest instance, not on the one
\* that was discarded.
C12_CallsGoToReplacement ==
    (last.op \in {"subscribe", "unsubscribe"} /\ nclients > 1) =>
        last.client = nclients

\* C13: once on_open has drained the queue, the queue of that instance is
\* empty.
C13_QueueEmptyWhenReady ==
    (last.op = "on_open" /\ last.result = "returned") =>
        queued_subscriptions[last.client] = << >>

\* C14: on a ready client, unsubscribe with an id that is active on the
\* resolved channel returns true and removes exactly that subscription, the
\* others keeping their order; it sends one unsubscribe request if the
\* channel is left without subscribers and nothing otherwise.
C14_RemovesExactlyThat ==
    [][ \A call \in Calls, id \in 1..MaxSubscribeCalls :
          ( /\ ws_ready[ws_client]
            /\ id \in ActiveIds(call)
            /\ IsUnsubscribe(call, id) )
          => LET channel == Format(call[1], call[2])
                 before == Lookup(active_subscriptions[ws_client], channel)
                 after == Lookup(active_subscriptions'[ws_client], channel)
             IN  /\ last'.result = "True"
                 /\ after = SelectSeq(before,
                                LAMBDA x : x.subscription_id # id)
                 /\ Len(after) = Len(before) - 1
                 /\ sent' = IF after = << >>
                            THEN << Frame("unsubscribe", channel) >>
                            ELSE << >>
                 /\ \A c \in (DOMAIN active_subscriptions[ws_client])
                                \ {channel} :
                        Lookup(active_subscriptions'[ws_client], c) =
                            active_subscriptions[ws_client][c] ]_vars

\* The next pass of the keepalive loop of instance k calls reconnect(): the
\* loop never ends, and the pass takes the else branch when the socket is
\* not connected.
TickReconnects(k) == k \in 1..nclients /\ ~Connected(k)

\* C15: once a reconnection has followed the failure of an open connection
\* (every instance's connection has opened), and while every replacement is
\* connected, no keepalive loop is about to trigger a further reconnection.
C15_OneReplacementPerFailure ==
    ( /\ nclients > 1
      /\ \A k \in 1..nclients : EverReady(k)
      /\ \A n \in 2..nclients : Connected(n) )
    => ~ \E k \in 1..nclients : TickReconnects(k)

\* C16: when the connection of a replacement has opened, every subscription
\* that was queued on an instance whose connection failed and whose
\* reconnect() marked it not ready, and that this instance never issued, is
\* active on the replacement.
C16_WindowSubscribeSurvives ==
    (last.op = "on_open" /\ last.client > 1) =>
        \A k \in 1..(last.client - 1) :
            (~ws_ready[k] /\ conn[k] = "closed") =>
                \A i \in 1..Len(queued_subscriptions[k]) :
                    LET entry == queued_subscriptions[k][i]
                        channel == Format(entry.channel, entry.params)
                    IN  entry.active_subscription
                            \notin Range(Lookup(active_subscriptions[k], channel))
                        => entry.active_subscription
                               \in Range(Lookup(active_subscriptions[last.client],
                                                channel))

\* C19: no subscribe and no unsubscribe ends by raising the transport's
\* send failure to its caller.
C19_SendFailureNotSurfaced ==
    (last.op \in {"subscribe", "unsubscribe"}) =>
        last.result # "WebSocketConnectionClosedException"

\* C20: read_messages calls the callback of every active subscription of the
\* frame's channel once, in list order, calls none when the channel has no
\* subscription or the frame has no params or no channel, and raises nothing.
C20_EverySubscriberOnceInOrder ==
    (last.op = "read_messages" /\ last.channel # "pong") =>
        LET subscriptions ==
                Lookup(active_subscriptions[last.client], last.channel)
        IN  /\ invoked = subscriptions
            /\ subscriptions = << >> => last.result = "None"

\* The subscription ids of the subscriptions that some instance holds, queued
\* or active.
HeldIds ==
    UNION { { queued_subscriptions[k][i].active_subscription.subscription_id :
                i \in 1..Len(queued_subscriptions[k]) }
            \cup UNION { { x.subscription_id :
                             x \in Range(active_subscriptions[k][c]) } :
                         c \in DOMAIN active_subscriptions[k] } :
            k \in 1..nclients }

\* C11: the id a subscribe call is assigned and returns is the id of no
\* subscription made before it, on whichever instance: no id is handed out
\* twice, before or after a reconnect.
C11_IdsNeverReused ==
    [][ \A call \in Calls :
          ( /\ last'.op = "subscribe" /\ last'.result = "returned"
            /\ Subscribe(new_client, call[1], call[2],
                         subscription_id_counter[new_client] + 1) )
          => subscription_id_counter'[new_client] \notin HeldIds ]_vars

\* C17: once on_open has returned, its loop has issued every entry of the
\* queue: no subscription that a subscribe call queued is left in the queue
\* of the ready client without having been made active and requested.
C17_QueuedNotDropped ==
    ( /\ frames["run"].op = "on_open" /\ Returned("run")
      /\ frames["run"].result = "returned" )
    => frames["run"].i > Len(queued_subscriptions[ws_client])

\* C18: the store of an unsubscribe of an active subscription that overlaps
\* other callers' calls (nothing was queued, so on_open replays nothing) has
\* the effect it has in a serial order: the channel keeps
\* every subscription it holds at that moment but the one unsubscribed, so a
\* subscription that an overlapping subscribe has added is not lost.
C18_OverlappingSubscribeNotLost ==
    [][ \A t \in Callers :
          ( /\ At(t, "unsubscribe", "assign")
            /\ queued_subscriptions[ws_client] = << >>
            /\ \E x \in Range(Lookup(active_subscriptions[ws_client],
                                      frames[t].channel_with_params)) :
                   x.subscription_id = frames[t].subscription_id
            /\ UnsubscribeAssign(t) )
          => LET channel == frames[t].channel_with_params
             IN  Lookup(active_subscriptions'[ws_client], channel) =
                     SelectSeq(Lookup(active_subscriptions[ws_client], channel),
                               LAMBDA x : x.subscription_id
                                              # frames[t].subscription_id) ]_vars

\* C21: with an account configured, the auth request is the first request on
\* the connection: while on_open has set the ready flag and has not yet
\* sent the auth request, no step of a caller's subscribe passes a subscribe
\* request to the transport.
C21_AuthBeforeSubscribe ==
    (account /\ At("run", "on_open", "auth"))
    => \A i \in 1..Len(sent) : sent[i].method # "subscribe"

====
